---- MODULE Spec2Model ----
(***************************************************************************)
(* A model of blocks/datasets/text.py: the NGramStream cached n-gram       *)
(* extractor (specification Spec, and SpecLive with the fairness of a      *)
(* running call) and the TextFile / OneBillionWord sentence readers        *)
(* (specification SpecText).                                               *)
(***************************************************************************)
EXTENDS Integers, Sequences, FiniteSets, TLC

(* ------------------------------ bounds -------------------------------- *)

\* Largest n-gram order tried.
MaxOrder == 2
\* Largest request size tried.
MaxRequest == 3
\* Largest number of sentences the upstream epoch holds in total.
MaxSentences == 3
\* Largest number of sources the upstream stream exposes.
MaxSources == 2
\* Largest number of cursors opened on one TextFile.
MaxCursors == 2
\* The end-of-data signals counted per cursor; further ones are not counted.
MaxStops == 2

\* The sentences upstream batches are built from: the sentence of the
\* n-gram scenario, a two-token sentence, and the sentence an empty line
\* encodes to when neither BOS nor EOS is configured.
SentencePool == { <<5, 6, 7, 8, 1>>, <<9, 1>>, <<>> }

VARIABLES
    stream,                \* NGramStream: "unconstructed", "constructed", "ValueError"
    data_stream,           \* the upstream handed to the constructor: [sources, epoch]
    ngram_order,           \* self.ngram_order
    cache,                 \* self.cache[0]: the cached sentences
    child_epoch_iterator,  \* the batches upstream has not delivered yet
    pc,                    \* "idle", or "for" while get_data's loop runs
    request,               \* get_data's argument
    it,                    \* the index the list iterator of the for loop is at
    loop_sentence,         \* get_data's loop variable
    last_pass,             \* history: what the latest pass of the loop did
    features,              \* get_data's local
    targets,               \* get_data's local
    ret,                   \* what the last call gave its caller
    emitted,               \* history: every (window, target) pair returned so far
    args,                  \* the arguments handed to TextFile / OneBillionWord
    textfile,              \* the TextFile object: how construction ended, self.files
    cursors,               \* the cursors open() has returned, by number
    text_ret               \* what the last TextFile.get_data call gave its caller

ngvars == << stream, data_stream, ngram_order, cache, child_epoch_iterator,
             pc, request, it, loop_sentence, last_pass, features, targets, ret,
             emitted >>

textvars == << args, textfile, cursors, text_ret >>

vars == << ngvars, textvars >>

(* --------------------------- python helpers --------------------------- *)

Min(a, b) == IF a < b THEN a ELSE b
Max(a, b) == IF a > b THEN a ELSE b

\* seq[:n]
SliceTo(seq, n) ==
    IF n >= 0 THEN SubSeq(seq, 1, Min(n, Len(seq)))
              ELSE SubSeq(seq, 1, Max(0, Len(seq) + n))

\* seq[n:]
SliceFrom(seq, n) ==
    IF n >= 0 THEN SubSeq(seq, Min(n, Len(seq)) + 1, Len(seq))
              ELSE SubSeq(seq, Max(0, Len(seq) + n) + 1, Len(seq))

\* list(sliding_window(n, seq)): every run of n consecutive elements.
sliding_window(n, seq) ==
    [i \in 1..Max(0, Len(seq) - n + 1) |-> SubSeq(seq, i, i + n - 1)]

RECURSIVE Flatten(_)
Flatten(seqs) ==
    IF seqs = <<>> THEN <<>> ELSE Head(seqs) \o Flatten(Tail(seqs))

(* ----------------------------- NGramStream ---------------------------- *)

\* The windows of the whole sentence, its last token included.
WindowsTaken_WholeSentence(sentence, order, budget) ==
    SliceTo(sliding_window(order, sentence), budget)

\* features.append(...)'s argument
WindowsTaken(sentence, order, budget) ==
    SliceTo(sliding_window(order, SliceTo(sentence, -1)), budget)

\* targets.append(...)'s argument
TargetsTaken(sentence, order, budget) ==
    SliceTo(SliceFrom(sentence, order), budget)

\* self.cache[0][0] = self.cache[0][0][request:]
CutHead(c, r) == [c EXCEPT ![1] = SliceFrom(c[1], r)]

\* The (window, target) pairs of a returned (features, targets), in order.
Pairs(fs, ts) ==
    LET w == Flatten(fs)
        t == Flatten(ts)
    IN  [i \in 1..Min(Len(w), Len(t)) |-> << w[i], t[i] >>]

\* No pass yet. head: self.cache[0][0] when the pass began; evicted: the pass
\* popped the head; emptied: the pop left the cache empty; refilled: the pass
\* called self._cache(); short_left: a head of fewer than ngram_order + 1
\* tokens met in this call is still cached.
NoPass == [head |-> <<>>, evicted |-> FALSE, emptied |-> FALSE, refilled |-> FALSE,
           short_left |-> FALSE]

NoRet == [op |-> "none", kind |-> "none", features |-> <<>>, targets |-> <<>>,
          lost |-> 0]

RECURSIVE SeqsOver(_, _)
\* Every sequence of exactly n elements of S.
SeqsOver(S, n) ==
    IF n = 0 THEN { <<>> }
    ELSE { <<x>> \o s : x \in S, s \in SeqsOver(S, n - 1) }

RECURSIVE Epochs(_)
\* Every way upstream can deliver at most n pool sentences in non-empty batches.
Epochs(n) ==
    { <<>> } \cup
    UNION { { <<b>> \o e : b \in SeqsOver(SentencePool, k), e \in Epochs(n - k) }
            : k \in 1..n }

NGramInit ==
    /\ stream = "unconstructed"
    /\ data_stream \in
         { [sources |-> n, epoch |-> e] : n \in 0..MaxSources, e \in Epochs(MaxSentences) }
    /\ data_stream.sources # 1 => data_stream.epoch = <<>>
    /\ ngram_order = 0
    /\ cache = <<>>
    /\ child_epoch_iterator = <<>>
    /\ pc = "idle"
    /\ request = 0
    /\ it = 0
    /\ loop_sentence = <<>>
    /\ last_pass = NoPass
    /\ features = <<>>
    /\ targets = <<>>
    /\ ret = NoRet
    /\ emitted = <<>>

\* NGramStream.__init__
NGramStream_init(order) ==
    /\ UNCHANGED textvars
    /\ stream = "unconstructed"
    /\ IF data_stream.sources > 1
       THEN /\ stream' = "ValueError"
            /\ UNCHANGED << ngram_order, child_epoch_iterator >>
       ELSE /\ stream' = "constructed"
            /\ ngram_order' = order
            /\ child_epoch_iterator' = data_stream.epoch
    /\ UNCHANGED << data_stream, cache, pc, request, it, loop_sentence, last_pass,
                    features, targets, ret, emitted >>

\* CachedDataStream._cache, called by the consumer on an empty cache.
_cache ==
    /\ UNCHANGED textvars
    /\ stream = "constructed"
    /\ data_stream.sources = 1
    /\ pc = "idle"
    /\ cache = <<>>
    /\ IF child_epoch_iterator = <<>>
       THEN /\ ret' = [NoRet EXCEPT !.op = "_cache", !.kind = "StopIteration"]
            /\ UNCHANGED << cache, child_epoch_iterator >>
       ELSE /\ cache' = cache \o Head(child_epoch_iterator)
            /\ child_epoch_iterator' = Tail(child_epoch_iterator)
            /\ ret' = [NoRet EXCEPT !.op = "_cache", !.kind = "done"]
    /\ UNCHANGED << stream, data_stream, ngram_order, pc, request, it,
                    loop_sentence, last_pass, features, targets, emitted >>

\* return tuple(numpy.asarray(data) for data in (features, targets))
Return(fs, ts) ==
    /\ ret' = [op |-> "get_data", kind |-> "data", features |-> fs,
               targets |-> ts, lost |-> 0]
    /\ emitted' = emitted \o Pairs(fs, ts)
    /\ pc' = "idle"

\* NGramStream.get_data: the call, up to the for loop. The cache of the one
\* source is self.cache[0]; a stream without a source has none.
NGramStream_get_data(r) ==
    /\ UNCHANGED textvars
    /\ stream = "constructed"
    /\ data_stream.sources = 1
    /\ pc = "idle"
    /\ request' = r
    /\ features' = <<>>
    /\ targets' = <<>>
    /\ it' = 0
    /\ last_pass' = NoPass
    /\ pc' = "for"
    /\ UNCHANGED << stream, data_stream, ngram_order, cache,
                    child_epoch_iterator, loop_sentence, ret, emitted >>

\* A pass that calls self._cache() whenever it has popped the head, as if the
\* call were nested one level less.
RefillNeeded_OnEvict(cut, popped) == cut[1] = <<>>

\* if not self.cache[0][0]: ... if not self.cache[0]: whether the pass calls
\* self._cache(), given the cache after the cut and after the pop.
RefillNeeded(cut, popped) == cut[1] = <<>> /\ popped = <<>>

\* One pass of the for loop's body, for the sentence the list iterator yields.
Iterate ==
    /\ UNCHANGED textvars
    /\ pc = "for"
    /\ it < Len(cache)
    /\ LET s == cache[it + 1]
           fs == Append(features,
                        WindowsTaken(s, ngram_order, request - Len(features)))
           ts == Append(targets,
                        TargetsTaken(s, ngram_order, request - Len(targets)))
           cut == CutHead(cache, request)
           popped == IF cut[1] = <<>> THEN Tail(cut) ELSE cut
           refill == RefillNeeded(cut, popped)
       IN  /\ loop_sentence' = s
           /\ last_pass' =
                 [head |-> cache[1], evicted |-> cut[1] = <<>>,
                  emptied |-> popped = <<>>, refilled |-> refill,
                  short_left |-> /\ \/ last_pass.short_left
                                    \/ Len(cache[1]) < ngram_order + 1
                                 /\ cut[1] # <<>>]
           /\ IF refill /\ child_epoch_iterator = <<>>
              THEN \* self._cache() raises StopIteration, which leaves get_data
                   /\ cache' = popped
                   /\ ret' = [op |-> "get_data", kind |-> "StopIteration",
                              features |-> <<>>, targets |-> <<>>,
                              lost |-> Len(Flatten(fs))]
                   /\ pc' = "idle"
                   /\ it' = it + 1
                   /\ features' = fs
                   /\ targets' = ts
                   /\ UNCHANGED << child_epoch_iterator, emitted >>
              ELSE /\ cache' = IF refill THEN popped \o Head(child_epoch_iterator)
                                         ELSE popped
                   /\ child_epoch_iterator' =
                         IF refill THEN Tail(child_epoch_iterator)
                                   ELSE child_epoch_iterator
                   /\ features' = fs
                   /\ targets' = ts
                   /\ it' = it + 1
                   /\ IF Len(fs) = request
                      THEN Return(fs, ts)
                      ELSE UNCHANGED << pc, ret, emitted >>
    /\ UNCHANGED << stream, data_stream, ngram_order, request >>

\* A loop that ends only when its index equals the length of the list, and so
\* misses the end of a list that has shrunk below the index.
LoopEnd_ExactEnd ==
    /\ UNCHANGED textvars
    /\ pc = "for"
    /\ it = Len(cache)
    /\ Return(features, targets)
    /\ UNCHANGED << stream, data_stream, ngram_order, cache,
                    child_epoch_iterator, request, it, loop_sentence, last_pass,
                    features, targets >>

\* The list iterator is past the end of the cache: the loop ends.
LoopEnd ==
    /\ UNCHANGED textvars
    /\ pc = "for"
    /\ it >= Len(cache)
    /\ Return(features, targets)
    /\ UNCHANGED << stream, data_stream, ngram_order, cache,
                    child_epoch_iterator, request, it, loop_sentence, last_pass,
                    features, targets >>

(* ------------------------------ TextFile ------------------------------ *)

\* A string is the sequence of its characters; an optional token is None or
\* Some(token).
None == <<>>
Some(token) == << token >>

BOS == << "<", "S", ">" >>
EOS == << "<", "/", "S", ">" >>
UNK == << "<", "U", "N", "K", ">" >>
EmptyString == <<>>

Whitespace == { " ", "\n", "\t" }

\* The dictionary of the TextFile docstring.
DocDictionary ==
    (UNK :> 0) @@ (EOS :> 1) @@ (<< "t", "h", "i", "s" >> :> 2) @@ (<< "a" >> :> 3)
    @@ (<< "o", "n", "e" >> :> 4)

\* A dictionary that also knows <S>, the empty string and single characters.
FullDictionary ==
    (UNK :> 0) @@ (EOS :> 1) @@ (<< "t", "h", "i", "s" >> :> 2) @@ (<< "a" >> :> 3)
    @@ (BOS :> 5) @@ (EmptyString :> 6) @@ (<< "b" >> :> 7)

\* A dictionary without the unknown-word token.
NoUnkDictionary == (EOS :> 1) @@ (<< "a" >> :> 3)

Dictionaries == { DocDictionary, FullDictionary, NoUnkDictionary }

\* The files on disk, by path: the lines a file iterator yields.
FileLines(path) ==
    CASE path = << "sentences.txt" >> ->
           << << "T", "h", "i", "s", " ", "i", "s", " ", "a", " ",
                 "s", "e", "n", "t", "e", "n", "c", "e", "\n" >>,
              << "T", "h", "i", "s", " ", "a", "n", "o", "t", "h", "e", "r", " ",
                 "o", "n", "e" >> >>
      [] path = << "a.txt" >> ->
           << << " ", "a", " ", " ", "b", " ", "\n" >>, << "\n" >> >>
      [] path = << "empty.txt" >> -> <<>>
      [] path = << "b.txt" >> -> << << "A", "\t", "b", " ", "a" >> >>
      [] OTHER -> << << "a", " ", "b", "\n" >> >>

FileLists ==
    { << << "sentences.txt" >> >>,
      << << "a.txt" >>, << "empty.txt" >>, << "b.txt" >> >>,
      <<>> }

\* str.lower, character by character.
LowerChar(c) ==
    CASE c = "T" -> "t" [] c = "A" -> "a" [] OTHER -> c

lower(sentence) == [i \in 1..Len(sentence) |-> LowerChar(sentence[i])]

RECURSIVE SplitFrom(_, _, _)
SplitFrom(s, i, word) ==
    LET done == IF word = <<>> THEN <<>> ELSE << word >>
    IN  IF i > Len(s) THEN done
        ELSE IF s[i] \in Whitespace THEN done \o SplitFrom(s, i + 1, <<>>)
        ELSE SplitFrom(s, i + 1, Append(word, s[i]))

\* sentence.split(): the maximal runs of non-whitespace characters.
split(sentence) == SplitFrom(sentence, 1, <<>>)

RECURSIVE lstrip(_)
lstrip(s) == IF s # <<>> /\ Head(s) \in Whitespace THEN lstrip(Tail(s)) ELSE s

RECURSIVE rstrip(_)
rstrip(s) ==
    IF s # <<>> /\ s[Len(s)] \in Whitespace THEN rstrip(SubSeq(s, 1, Len(s) - 1)) ELSE s

\* sentence.strip()
strip(sentence) == rstrip(lstrip(sentence))

\* if self.bos_token / if self.eos_token: None and '' are both false.
Truthy(token) == token # None /\ token[1] # EmptyString

\* dictionary.get(key, default)
DictGet(dictionary, key, default) ==
    IF key \in DOMAIN dictionary THEN dictionary[key] ELSE default

\* A comprehension that leaves out the tokens the dictionary lacks.
MapTokens_DropUnknown(dictionary, tokens, unk_token) ==
    LET known == SelectSeq(tokens, LAMBDA t : t \in DOMAIN dictionary)
    IN  [i \in 1..Len(known) |-> dictionary[known[i]]]

\* [self.dictionary.get(token, self.dictionary[self.unk_token]) for token in tokens]
MapTokens(dictionary, tokens, unk_token) ==
    [i \in 1..Len(tokens) |-> DictGet(dictionary, tokens[i], dictionary[unk_token])]

\* The tokens get_data numberizes.
Tokens(level, sentence) ==
    IF level = "word" THEN split(sentence)
    ELSE LET chars == strip(sentence) IN [i \in 1..Len(chars) |-> << chars[i] >>]

\* TextFile.get_data after next(state): the sentence to the returned tuple
\* (data,), or the KeyError of a subscript self.dictionary[...] whose key is
\* missing.
Numberize(a, line) ==
    LET sentence == IF a.preprocess # "None" THEN lower(line) ELSE line
        tokens == Tokens(a.level, sentence)
        missing ==
            \/ Truthy(a.bos_token) /\ a.bos_token[1] \notin DOMAIN a.dictionary
            \/ tokens # <<>> /\ a.unk_token \notin DOMAIN a.dictionary
            \/ Truthy(a.eos_token) /\ a.eos_token[1] \notin DOMAIN a.dictionary
    IN  IF missing THEN [kind |-> "KeyError", data |-> <<>>]
        ELSE [kind |-> "data",
              data |-> << (IF Truthy(a.bos_token)
                              THEN << a.dictionary[a.bos_token[1]] >> ELSE <<>>)
                          \o MapTokens(a.dictionary, tokens, a.unk_token)
                          \o (IF Truthy(a.eos_token)
                                 THEN << a.dictionary[a.eos_token[1]] >> ELSE <<>>) >>]

\* The checks without the one of level.
Validate_NoLevelCheck(a) ==
    IF a.bos_token # None /\ a.bos_token[1] \notin DOMAIN a.dictionary THEN "bos_token"
    ELSE IF a.eos_token # None /\ a.eos_token[1] \notin DOMAIN a.dictionary THEN "eos_token"
    ELSE IF a.unk_token \notin DOMAIN a.dictionary THEN "unk_token"
    ELSE "none"

\* TextFile.__init__'s checks, in order: the argument whose check raises
\* ValueError, or "none".
Validate(a) ==
    IF a.bos_token # None /\ a.bos_token[1] \notin DOMAIN a.dictionary THEN "bos_token"
    ELSE IF a.eos_token # None /\ a.eos_token[1] \notin DOMAIN a.dictionary THEN "eos_token"
    ELSE IF a.unk_token \notin DOMAIN a.dictionary THEN "unk_token"
    ELSE IF a.level \notin { "word", "character" } THEN "level"
    ELSE "none"

\* TextFile.__init__ with the files it is handed.
TextFileInit(a, files) ==
    LET raised == Validate(a)
    IN  [state |-> IF raised = "none" THEN "constructed" ELSE "ValueError",
         raised |-> raised, files |-> files, super_called |-> TRUE]

NoTextFile == [state |-> "unconstructed", raised |-> "none", files |-> <<>>,
               super_called |-> FALSE]

\* nread and stops are history: the lines and the end-of-data signals the
\* cursor has given so far; late is history too: whether the other
\* cursors had given a line when this one was opened.
NoCursor == [state |-> "unopened", file |-> 0, line |-> 0, nread |-> 0,
             stops |-> 0, late |-> FALSE]

NoTextRet == [op |-> "none", cursor |-> 0, request |-> "None", kind |-> "none",
              line |-> <<>>, data |-> <<>>]

(* --------------------------- OneBillionWord --------------------------- *)

\* range(a, b)
range(a, b) == a..(b - 1)

\* '{:05d}'.format(partition) for a partition that passed the range check
Format05d(partition) ==
    LET digit(k) == CASE k = 0 -> "0" [] k = 1 -> "1" [] k = 2 -> "2" [] k = 3 -> "3"
                      [] k = 4 -> "4" [] k = 5 -> "5" [] k = 6 -> "6" [] k = 7 -> "7"
                      [] k = 8 -> "8" [] OTHER -> "9"
    IN  << "0", "0", "0", digit(partition \div 10), digit(partition % 10) >>

\* The range checks with the two subsets' ranges exchanged.
PartitionsInRange_Swapped(which_set, which_partitions) ==
    \A i \in 1..Len(which_partitions) :
        which_partitions[i] \in (IF which_set = "training" THEN range(0, 50)
                                                            ELSE range(1, 100))

\* all(partition in range(...) for partition in which_partitions)
PartitionsInRange(which_set, which_partitions) ==
    \A i \in 1..Len(which_partitions) :
        which_partitions[i] \in (IF which_set = "training" THEN range(1, 100)
                                                            ELSE range(0, 50))

\* os.path.join(config.data_path, '1-billion-word', <directory>, <file name>)
PartitionPath(which_set, partition) ==
    IF which_set = "training"
    THEN << "data_path", "1-billion-word", "training-monolingual.tokenized.shuffled",
            "news.en-" >> \o Format05d(partition) \o << "-of-00100" >>
    ELSE << "data_path", "1-billion-word", "heldout-monolingual.tokenized.shuffled",
            "news.en.heldout-" >> \o Format05d(partition) \o << "-of-00050" >>

\* OneBillionWord.__init__
OneBillionWordInit(a) ==
    IF a.which_set \notin { "training", "heldout" }
    THEN [NoTextFile EXCEPT !.state = "ValueError", !.raised = "which_set"]
    ELSE IF ~PartitionsInRange(a.which_set, a.which_partitions)
    THEN [NoTextFile EXCEPT !.state = "ValueError", !.raised = "which_partitions"]
    ELSE TextFileInit(a, [i \in 1..Len(a.which_partitions) |->
                             PartitionPath(a.which_set, a.which_partitions[i])])

(* ------------------------- TextFile: operations ----------------------- *)

TextFileArgs ==
    [ cls : { "TextFile" }, files : FileLists, which_set : { "none" },
      which_partitions : { <<>> }, dictionary : Dictionaries,
      bos_token : { None, Some(BOS), Some(EmptyString) },
      eos_token : { None, Some(EOS), Some(EmptyString) },
      unk_token : { UNK, << "a" >> },
      level : { "word", "character", "sentence" },
      preprocess : { "None", "lower" } ]

OneBillionWordArgs ==
    [ cls : { "OneBillionWord" }, files : { <<>> },
      which_set : { "training", "heldout", "test" },
      which_partitions : { <<>>, <<0>>, <<1>>, <<49>>, <<50>>, <<99>>, <<100>>,
                           <<1, 100>>, <<0, 49>>, <<50, 1>>, << -1 >> },
      dictionary : { DocDictionary, FullDictionary },
      bos_token : { None, Some(BOS) }, eos_token : { Some(EOS) },
      unk_token : { UNK }, level : { "word" }, preprocess : { "None" } ]

DefaultArgs ==
    [ cls |-> "TextFile", files |-> <<>>, which_set |-> "none",
      which_partitions |-> <<>>, dictionary |-> DocDictionary, bos_token |-> None,
      eos_token |-> None, unk_token |-> UNK, level |-> "word", preprocess |-> "None" ]

\* TextFile(files, dictionary, ...)
TextFile_init ==
    /\ textfile.state = "unconstructed"
    /\ args.cls = "TextFile"
    /\ textfile' = TextFileInit(args, args.files)
    /\ UNCHANGED << args, cursors, text_ret >>
    /\ UNCHANGED ngvars

\* OneBillionWord(which_set, which_partitions, dictionary, **kwargs)
OneBillionWord_init ==
    /\ textfile.state = "unconstructed"
    /\ args.cls = "OneBillionWord"
    /\ textfile' = OneBillionWordInit(args)
    /\ UNCHANGED << args, cursors, text_ret >>
    /\ UNCHANGED ngvars

\* A cursor that resumes where the first cursor is, as if the dataset kept one
\* chain and handed it out again.
OpenChain_Shared ==
    IF cursors[1].state = "open" THEN cursors[1]
    ELSE [NoCursor EXCEPT !.state = "open", !.file = 1, !.line = 0]

\* chain(*[_iter(open(f)) for f in self.files]): positioned before the first
\* line of the first file.
OpenChain == [NoCursor EXCEPT !.state = "open", !.file = 1, !.line = 0]

\* The lines all cursors have been given so far.
LinesGiven(cs) ==
    LET RECURSIVE upto(_)
        upto(n) == IF n = 0 THEN 0 ELSE cs[n].nread + upto(n - 1)
    IN  upto(MaxCursors)

\* TextFile.open
TextFile_open ==
    /\ textfile.state = "constructed"
    /\ \E c \in 1..MaxCursors :
         /\ cursors[c].state = "unopened"
         /\ \A d \in 1..(c - 1) : cursors[d].state # "unopened"
         /\ cursors' = [cursors EXCEPT ![c] =
                            [OpenChain EXCEPT !.late = LinesGiven(cursors) > 0]]
    /\ UNCHANGED << args, textfile, text_ret >>
    /\ UNCHANGED ngvars

\* A chain that ends with the file the cursor is in.
ChainNext_OneFile(files, cur) ==
    IF cur.file > Len(files) \/ cur.line >= Len(FileLines(files[cur.file]))
    THEN [stop |-> TRUE, line |-> <<>>, cursor |-> cur]
    ELSE [stop |-> FALSE, line |-> FileLines(files[cur.file])[cur.line + 1],
          cursor |-> [cur EXCEPT !.line = cur.line + 1]]

RECURSIVE ChainNext(_, _)
\* next(state) on the chain of file iterators: the line yielded and the
\* cursor after it, or the end of the chain.
ChainNext(files, cur) ==
    IF cur.file > Len(files) THEN [stop |-> TRUE, line |-> <<>>, cursor |-> cur]
    ELSE IF cur.line < Len(FileLines(files[cur.file]))
    THEN [stop |-> FALSE, line |-> FileLines(files[cur.file])[cur.line + 1],
          cursor |-> [cur EXCEPT !.line = cur.line + 1]]
    ELSE ChainNext(files, [cur EXCEPT !.file = cur.file + 1, !.line = 0])

\* A get_data that reads the line before it looks at the request.
TextFile_get_data_NextFirst(c, req) ==
    /\ textfile.state = "constructed"
    /\ cursors[c].state = "open"
    /\ LET nxt == ChainNext(textfile.files, cursors[c])
           out == Numberize(args, nxt.line)
       IN  IF nxt.stop
           THEN /\ text_ret' = [NoTextRet EXCEPT !.op = "get_data", !.cursor = c,
                                                 !.request = req,
                                                 !.kind = "StopIteration"]
                /\ cursors' = [cursors EXCEPT ![c] =
                                   [nxt.cursor EXCEPT !.stops = Min(@ + 1, MaxStops)]]
           ELSE IF req # "None"
           THEN /\ text_ret' = [NoTextRet EXCEPT !.op = "get_data", !.cursor = c,
                                                 !.request = req,
                                                 !.kind = "ValueError"]
                /\ cursors' = [cursors EXCEPT ![c] = nxt.cursor]
           ELSE /\ text_ret' = [op |-> "get_data", cursor |-> c, request |-> req,
                                kind |-> out.kind, line |-> nxt.line,
                                data |-> out.data]
                /\ cursors' = [cursors EXCEPT ![c] =
                                   [nxt.cursor EXCEPT !.nread = @ + 1]]
    /\ UNCHANGED << args, textfile >>
    /\ UNCHANGED ngvars

\* TextFile.get_data(state, request). The request is looked at before the
\* state, so a call with a request needs no opened cursor.
TextFile_get_data(c, req) ==
    /\ textfile.state = "constructed"
    /\ req = "None" => cursors[c].state = "open"
    /\ IF req # "None"
       THEN /\ text_ret' = [NoTextRet EXCEPT !.op = "get_data", !.cursor = c,
                                             !.request = req,
                                             !.kind = "ValueError"]
            /\ UNCHANGED cursors
       ELSE LET nxt == ChainNext(textfile.files, cursors[c])
                out == Numberize(args, nxt.line)
            IN  IF nxt.stop
                THEN /\ text_ret' = [NoTextRet EXCEPT !.op = "get_data", !.cursor = c,
                                                      !.kind = "StopIteration"]
                     /\ cursors' = [cursors EXCEPT ![c] =
                                        [nxt.cursor EXCEPT !.stops = Min(@ + 1, MaxStops)]]
                ELSE /\ text_ret' = [op |-> "get_data", cursor |-> c,
                                     request |-> req,
                                     kind |-> out.kind, line |-> nxt.line,
                                     data |-> out.data]
                     /\ cursors' = [cursors EXCEPT ![c] =
                                        [nxt.cursor EXCEPT !.nread = @ + 1]]
    /\ UNCHANGED << args, textfile >>
    /\ UNCHANGED ngvars

(* --------------------------- specifications --------------------------- *)

NGramIdle ==
    /\ stream = "unconstructed"
    /\ data_stream = [sources |-> 1, epoch |-> <<>>]
    /\ ngram_order = 0
    /\ cache = <<>>
    /\ child_epoch_iterator = <<>>
    /\ pc = "idle"
    /\ request = 0
    /\ it = 0
    /\ loop_sentence = <<>>
    /\ last_pass = NoPass
    /\ features = <<>>
    /\ targets = <<>>
    /\ ret = NoRet
    /\ emitted = <<>>

TextIdle ==
    /\ args = DefaultArgs
    /\ textfile = NoTextFile
    /\ cursors = [c \in 1..MaxCursors |-> NoCursor]
    /\ text_ret = NoTextRet

TextInit ==
    /\ args \in TextFileArgs \cup OneBillionWordArgs
    /\ textfile = NoTextFile
    /\ cursors = [c \in 1..MaxCursors |-> NoCursor]
    /\ text_ret = NoTextRet

\* The NGramStream over every upstream epoch.
Init == NGramInit /\ TextIdle

Next ==
    \/ \E order \in 1..MaxOrder : NGramStream_init(order)
    \/ _cache
    \/ \E r \in 1..MaxRequest : NGramStream_get_data(r)
    \/ Iterate
    \/ LoopEnd

Spec == Init /\ [][Next]_vars

\* get_data runs to its end once called: the interpreter goes on to the next
\* pass of the loop, or leaves the loop, whenever it can.
SpecLive == Init /\ [][Next]_vars /\ WF_vars(Iterate) /\ WF_vars(LoopEnd)

\* The TextFile and OneBillionWord readers over every argument list.
InitText == NGramIdle /\ TextInit

NextText ==
    \/ TextFile_init
    \/ OneBillionWord_init
    \/ TextFile_open
    \/ \E c \in 1..MaxCursors, req \in { "None", "1" } : TextFile_get_data(c, req)

SpecText == InitText /\ [][NextText]_vars

(* ------------------------ claims: NGramStream ------------------------- *)

\* The sentences upstream delivers over the whole epoch, in order.
Corpus == Flatten(data_stream.epoch)

\* The sliding-window pairs of one sentence: window s[i..i+K-1], target s[i+K].
SentencePairs(s, order) ==
    [i \in 1..Max(0, Len(s) - order) |-> << SubSeq(s, i, i + order - 1), s[i + order] >>]

RECURSIVE CorpusPairs(_, _)
CorpusPairs(sentences, order) ==
    IF sentences = <<>> THEN <<>>
    ELSE SentencePairs(Head(sentences), order) \o CorpusPairs(Tail(sentences), order)

IsPrefix(a, b) == Len(a) <= Len(b) /\ SubSeq(b, 1, Len(a)) = a

Returned == pc = "idle" /\ ret.op = "get_data" /\ ret.kind = "data"

\* C1: a get_data(request) that returns gives windows and targets of equal
\* length holding exactly `request` pairs, and fewer than `request` pairs only
\* when upstream is exhausted (read in the claim's favour: when no batch
\* upstream still holds a pair).
C1_ExactlyRequestPairs ==
    Returned =>
        LET n == Len(Flatten(ret.features))
        IN  /\ n = Len(Flatten(ret.targets))
            /\ n <= request
            /\ n < request =>
                   CorpusPairs(Flatten(child_epoch_iterator), ngram_order) = <<>>

\* C2: over any sequence of get_data calls the pairs returned so far are, in
\* order, the first sliding-window pairs of the upstream sentences taken
\* sentence by sentence: none skipped, duplicated or reordered.
C2_NoPairDroppedOrDuplicated ==
    stream = "constructed" => IsPrefix(emitted, CorpusPairs(Corpus, ngram_order))

\* C5: every returned window is ngram_order consecutive tokens s[i..i+K-1] of
\* one upstream sentence s without its last token, and the target paired with
\* it is s[i+K] of that sentence; K=2 and [5,6,7,8,1] give windows
\* [5,6],[6,7],[7,8] and targets 7,8,1.
C5_WindowWithinOneSentence ==
    /\ Returned =>
         /\ Len(ret.features) = Len(ret.targets)
         /\ \A n \in 1..Len(ret.features) :
              /\ Len(ret.features[n]) = Len(ret.targets[n])
              /\ \A j \in 1..Len(ret.features[n]) :
                   \E k \in 1..Len(Corpus) :
                     \E i \in 1..Len(Corpus[k]) :
                        /\ i + ngram_order <= Len(Corpus[k])
                        /\ ret.features[n][j] = SubSeq(Corpus[k], i, i + ngram_order - 1)
                        /\ ret.targets[n][j] = Corpus[k][i + ngram_order]
    /\ WindowsTaken(<<5, 6, 7, 8, 1>>, 2, 3) = << <<5, 6>>, <<6, 7>>, <<7, 8>> >>
    /\ TargetsTaken(<<5, 6, 7, 8, 1>>, 2, 3) = <<7, 8, 1>>

\* C5 witness: the scenario's sentence has been windowed with K=2.
C5_Witness ==
    /\ Returned /\ ngram_order = 2
    /\ ret.features = << << <<5, 6>>, <<6, 7>>, <<7, 8>> >> >>
    /\ ret.targets = << <<7, 8, 1>> >>

\* C7: after a completed get_data call no sentence held in the cache is empty.
C7_NoEmptySentenceCached ==
    Returned => \A i \in 1..Len(cache) : cache[i] # <<>>

\* C8: get_data raises the end-of-data signal only when the call has
\* accumulated no example; accumulated examples are returned, not lost.
C8_StopOnlyWithoutExamples ==
    (ret.op = "get_data" /\ ret.kind = "StopIteration") => ret.lost = 0

\* C9: construction succeeds only for an upstream with exactly one source and
\* fails with ValueError for every other number of sources.
C9_ExactlyOneSource ==
    /\ stream = "constructed" => data_stream.sources = 1
    /\ (stream # "unconstructed" /\ data_stream.sources # 1) => stream = "ValueError"

(* --------------------- claims: TextFile, OneBillionWord --------------- *)

\* A TextFile.get_data call without a request has consumed a line.
LineConsumed ==
    text_ret.op = "get_data" /\ text_ret.kind \notin { "ValueError", "StopIteration" }

DocLine1 == << "T", "h", "i", "s", " ", "i", "s", " ", "a", " ",
               "s", "e", "n", "t", "e", "n", "c", "e", "\n" >>
DocLine2 == << "T", "h", "i", "s", " ", "a", "n", "o", "t", "h", "e", "r", " ",
               "o", "n", "e" >>

DocExample ==
    /\ args.cls = "TextFile" /\ args.dictionary = DocDictionary
    /\ args.bos_token = None /\ args.eos_token = Some(EOS) /\ args.unk_token = UNK
    /\ args.level = "word" /\ args.preprocess = "lower"

\* How many marker ids a token configures: none when it is null, one when it
\* is a non-empty string; the empty string is left to the claim about the
\* tokens the constructor validates.
MarkerCounts(token) ==
    IF token = None THEN { 0 }
    ELSE IF token[1] = EmptyString THEN { 0, 1 } ELSE { 1 }

\* C3: for every line, dictionary and granularity mode get_data returns a
\* one-element tuple whose list is
\* [BOS_id]? + [dict.get(tok, unk_id) for tok in tokens] + [EOS_id]? in token
\* order, with the unknown-token id for a token the dictionary lacks and never
\* an exception; the docstring's two lines give [2,0,3,0,1] and [2,0,4,1].
C3_Numberized ==
    LineConsumed =>
        LET sentence == IF args.preprocess = "lower" THEN lower(text_ret.line)
                                                     ELSE text_ret.line
            stripped == strip(sentence)
            tokens == IF args.level = "word" THEN split(sentence)
                      ELSE [i \in 1..Len(stripped) |-> << stripped[i] >>]
            d == args.dictionary
            data == text_ret.data[1]
        IN  /\ text_ret.kind = "data"
            /\ Len(text_ret.data) = 1
            /\ \E nb \in MarkerCounts(args.bos_token), ne \in MarkerCounts(args.eos_token) :
                 /\ Len(data) = nb + Len(tokens) + ne
                 /\ nb = 1 => data[1] = d[args.bos_token[1]]
                 /\ ne = 1 => data[Len(data)] = d[args.eos_token[1]]
                 /\ \A i \in 1..Len(tokens) :
                      data[nb + i] = IF tokens[i] \in DOMAIN d THEN d[tokens[i]]
                                     ELSE d[args.unk_token]
            /\ (DocExample /\ text_ret.line = DocLine1) => data = <<2, 0, 3, 0, 1>>
            /\ (DocExample /\ text_ret.line = DocLine2) => data = <<2, 0, 4, 1>>

\* C3 witness: the docstring's second line has been numberized, after its first.
C3_Witness ==
    /\ DocExample /\ LineConsumed
    /\ text_ret.line = DocLine2 /\ text_ret.data = << <<2, 0, 4, 1>> >>
    /\ cursors[text_ret.cursor].nread = 2

\* The lines of the files, concatenated in the given file order.
AllLines == Flatten([i \in 1..Len(textfile.files) |-> FileLines(textfile.files[i])])

\* C4: the k-th successful get_data on a cursor returns the encoding of the
\* k-th line of the concatenated files; with every line consumed get_data
\* raises StopIteration, and so does every later call on that cursor.
C4_CursorSequence ==
    /\ (text_ret.op = "get_data" /\ text_ret.kind # "ValueError") =>
         LET cur == cursors[text_ret.cursor]
         IN  /\ text_ret.kind # "StopIteration" =>
                  /\ cur.nread \in 1..Len(AllLines)
                  /\ text_ret.line = AllLines[cur.nread]
                  /\ text_ret.data = Numberize(args, AllLines[cur.nread]).data
                  /\ cur.stops = 0
             /\ text_ret.kind = "StopIteration" =>
                  /\ cur.nread = Len(AllLines)
                  /\ cur.stops >= 1
    /\ \A c \in 1..MaxCursors :
         cursors[c].stops >= 1 =>
            /\ cursors[c].nread = Len(AllLines)
            /\ ChainNext(textfile.files, cursors[c]).stop

\* C4 witness: a cursor over three files has given all three lines and then
\* the end-of-data signal twice.
C4_Witness ==
    /\ text_ret.op = "get_data" /\ text_ret.kind = "StopIteration"
    /\ Len(textfile.files) = 3
    /\ cursors[text_ret.cursor].nread = 3
    /\ cursors[text_ret.cursor].stops = 2

\* C6: constructing a TextFile raises ValueError, at construction, when
\* bos_token is non-null and no key of the dictionary, when eos_token is
\* non-null and no key, when unk_token is no key, and when level is neither
\* 'word' nor 'character'.
C6_ConstructionValidates ==
    (   /\ args.cls = "TextFile"
        /\ textfile.state # "unconstructed"
        /\ \/ args.bos_token # None /\ args.bos_token[1] \notin DOMAIN args.dictionary
           \/ args.eos_token # None /\ args.eos_token[1] \notin DOMAIN args.dictionary
           \/ args.unk_token \notin DOMAIN args.dictionary
           \/ args.level \notin { "word", "character" } )
        => /\ textfile.state = "ValueError"
           /\ text_ret = NoTextRet
           /\ \A c \in 1..MaxCursors : cursors[c] = NoCursor

\* C6 witness: bos_token='<S>' with a dictionary lacking '<S>' has failed.
C6_Witness ==
    /\ args.cls = "TextFile" /\ textfile.state = "ValueError"
    /\ args.bos_token = Some(BOS) /\ BOS \notin DOMAIN args.dictionary

\* C10: constructing a OneBillionWord raises ValueError when which_set is
\* neither 'training' nor 'heldout' or when an index of which_partitions lies
\* outside [1,99] for training or [0,49] for heldout, before any path is
\* resolved or handed to the TextFile constructor.
C10_PartitionsValidated ==
    (args.cls = "OneBillionWord" /\ textfile.state # "unconstructed") =>
        LET p == args.which_partitions
            outside(lo, hi) == \E i \in 1..Len(p) : p[i] < lo \/ p[i] > hi
        IN  (   \/ args.which_set \notin { "training", "heldout" }
                \/ args.which_set = "training" /\ outside(1, 99)
                \/ args.which_set = "heldout" /\ outside(0, 49) )
            => /\ textfile.state = "ValueError"
               /\ textfile.files = <<>>
               /\ ~textfile.super_called

\* C10 witness: a training partition list holding 100 has been rejected.
C10_Witness ==
    /\ args.cls = "OneBillionWord" /\ args.which_set = "training"
    /\ args.which_partitions = <<1, 100>>
    /\ textfile.state = "ValueError"

\* C11: every open() returns a cursor positioned at the first line of the
\* first file, whatever the cursors opened earlier have read, and the cursors
\* are independent: a step that advances or exhausts one cursor leaves every
\* other cursor as it was, so each cursor's next line depends on its own
\* count of lines only.
C11_CursorsIndependent ==
    /\ [](\A c \in 1..MaxCursors :
            cursors[c].state = "open" =>
               LET nxt == ChainNext(textfile.files, cursors[c])
               IN  IF cursors[c].nread < Len(AllLines)
                   THEN ~nxt.stop /\ nxt.line = AllLines[cursors[c].nread + 1]
                   ELSE nxt.stop)
    /\ [][\A c \in 1..MaxCursors :
            /\ (cursors[c].state = "unopened" /\ cursors'[c].state = "open") =>
                  LET nxt == ChainNext(textfile.files, cursors'[c])
                  IN  /\ cursors'[c].nread = 0
                      /\ cursors'[c].stops = 0
                      /\ IF AllLines = <<>> THEN nxt.stop
                         ELSE ~nxt.stop /\ nxt.line = AllLines[1]
            /\ cursors'[c] # cursors[c] =>
                  \A d \in 1..MaxCursors \ { c } : cursors'[d] = cursors[d]]_vars

\* C11 witness: the second cursor was opened after the first had given lines;
\* the first has since been exhausted, and the second has just given the first
\* line of a text of at least two lines.
C11_Witness ==
    /\ cursors[2].state = "open" /\ cursors[2].late
    /\ cursors[1].stops >= 1
    /\ Len(AllLines) >= 2
    /\ text_ret.op = "get_data" /\ text_ret.cursor = 2 /\ text_ret.kind = "data"
    /\ cursors[2].nread = 1
    /\ text_ret.line = AllLines[1]

\* C12: TextFile.get_data with any non-null request raises ValueError, in
\* every state of the cursor (unopened, part read, exhausted), and does not
\* advance the cursor: every cursor is after the call where it was before it,
\* so the next call without a request returns the line it would have returned.
C12_RequestRejected ==
    /\ []((text_ret.op = "get_data" /\ text_ret.request # "None") =>
            /\ text_ret.kind = "ValueError"
            /\ text_ret.data = <<>>)
    /\ [][(/\ text_ret'.op = "get_data"
           /\ text_ret'.request # "None"
           /\ \A c \in 1..MaxCursors : cursors'[c].state = cursors[c].state)
          => cursors' = cursors]_vars

\* C12 witness: a call with a request has been rejected on a cursor that had
\* given one line of a text of at least two and has not been exhausted.
C12_Witness ==
    /\ text_ret.op = "get_data" /\ text_ret.request = "1"
    /\ text_ret.kind = "ValueError"
    /\ Len(AllLines) >= 2
    /\ cursors[text_ret.cursor].state = "open"
    /\ cursors[text_ret.cursor].nread = 1
    /\ cursors[text_ret.cursor].stops = 0

\* The windows the latest pass of the loop took from its sentence.
PassWindows == features[Len(features)]

\* The targets the latest pass of the loop took from its sentence.
PassTargets == targets[Len(targets)]

C14_ShortHeadEvicted ==
    /\ (features # <<>> /\ it = 1 /\ Len(last_pass.head) < ngram_order + 1) =>
          /\ loop_sentence = last_pass.head
          /\ PassWindows = <<>>
          /\ PassTargets = <<>>
    /\ Returned => ~last_pass.short_left

\* C15: the cache is refilled exactly when it becomes empty. A pass of the
\* loop calls self._cache() if and only if its eviction left the cache empty;
\* a batch taken from upstream always lands in an empty cache, so the cache
\* after a refill is that batch; and the loop never goes on to a further pass
\* with the cache emptied and not refilled.
C15_RefillExactlyWhenEmpty ==
    /\ [](features # <<>> => (last_pass.refilled <=> last_pass.emptied))
    /\ []((pc = "for" /\ features # <<>>) => cache # <<>>)
    /\ [][(stream = "constructed"
            /\ child_epoch_iterator' # child_epoch_iterator) =>
              /\ child_epoch_iterator # <<>>
              /\ child_epoch_iterator' = Tail(child_epoch_iterator)
              /\ cache' = Head(child_epoch_iterator)]_vars

\* C15 witness: a pass of get_data has emptied the cache and refilled it from
\* upstream, and the loop goes on with the batch it was given.
C15_Witness ==
    /\ pc = "for"
    /\ features # <<>>
    /\ last_pass.emptied /\ last_pass.refilled
    /\ cache # <<>>

\* C16: in every pass of the get_data loop the sentence the windows and the
\* targets are computed from is the head of the cache, the sentence whose
\* prefix the pass then removes: the loop is at the first entry of the list
\* and its sentence is the head the pass began with.
C16_WindowedSentenceIsHead ==
    features # <<>> =>
        /\ it = 1
        /\ loop_sentence = last_pass.head

\* C17: for every TextFile whose construction succeeded, every sentence
\* get_data returns starts with dictionary[bos_token] whenever bos_token is
\* non-null and ends with dictionary[eos_token] whenever eos_token is
\* non-null, the empty string included when it is a key of the dictionary.
C17_MarkersWhenConfigured ==
    (textfile.state = "constructed" /\ LineConsumed /\ text_ret.kind = "data") =>
        LET d == args.dictionary
            data == text_ret.data[1]
            nb == IF args.bos_token # None THEN 1 ELSE 0
            ne == IF args.eos_token # None THEN 1 ELSE 0
        IN  /\ Len(data) >= nb + ne
            /\ nb = 1 => data[1] = d[args.bos_token[1]]
            /\ ne = 1 => data[Len(data)] = d[args.eos_token[1]]

\* C18: every NGramStream.get_data(request) call with request >= 1
\* terminates, returning data or raising the end-of-data signal, for every
\* cache content and every finite upstream, although the loop runs over the
\* cache list while evictions shorten it and refills extend it.
C18_GetDataTerminates ==
    (pc = "for") ~> (/\ pc = "idle"
                     /\ ret.op = "get_data"
                     /\ ret.kind \in { "data", "StopIteration" })

\* C18 witness: a call has returned short of its request because the loop ran
\* off a list that evictions had shortened below the iterator's index.
C18_Witness ==
    /\ Returned
    /\ Len(features) < request
    /\ it >= 2
    /\ it > Len(cache)

====
